---------------------------- MODULE Spec2Model ----------------------------
(***************************************************************************)
(* CoastGuardAI: the hybrid risk fusion formula (src/engine.py) and the    *)
(* community observation store, validator and reliability scoring          *)
(* (src/community_reports.py).                                             *)
(*                                                                         *)
(* Real numbers are fixed-point integers.  Python's float arithmetic is    *)
(* modelled by exact decimal arithmetic and round() by round-half-to-even; *)
(* the input grids below are chosen so that every product and quotient is  *)
(* exact in the chosen unit.                                               *)
(*   risk values        : units of 1/30000 (RiskOne = 1.0)                 *)
(*   rounded risk       : hundredths (0..100)                              *)
(*   mangrove_width     : metres                                           *)
(*   tide_level         : tenths of a metre                                *)
(*   rainfall_mm        : millimetres                                      *)
(*   scores, confidence : units of 1/10000 (One = 1.0)                     *)
(*   rounded scores     : thousandths (0..1000)                            *)
(*   latitude/longitude : hundredths of a degree                           *)
(*   clock              : hours                                            *)
(***************************************************************************)
EXTENDS Integers, Sequences, FiniteSets, TLC

VARIABLES
    observers,           \* table observers: observer_id -> row
    observations,        \* table observations: row i has id i (AUTOINCREMENT)
    validation_history,  \* table validation_history, in insertion order
    now,                 \* the wall clock read by datetime.now()
    ret,                 \* the last call: its name, arguments and return value
    calls                \* validate_observation calls in flight: caller -> progress

vars == <<observers, observations, validation_history, now, ret, calls>>

Min(a, b) == IF a <= b THEN a ELSE b

Max(a, b) == IF a >= b THEN a ELSE b

\* Python round(): n/d rounded to the nearest integer, ties to the even one.
RoundHalfEven(n, d) ==
    LET q == n \div d
        r == n % d
    IN  IF 2 * r > d \/ (2 * r = d /\ q % 2 = 1) THEN q + 1 ELSE q

(***************************************************************************)
(* Hybrid risk fusion: src/engine.py                                       *)
(***************************************************************************)

RiskOne == 30000

satellite_flood_risk == 9000

SeaStateSwapped(sea_state) ==
    CASE sea_state = "Rough" -> 6000
      [] sea_state = "Choppy" -> 12000
      [] OTHER -> 0

\* if sea_state == "Rough": += 0.4  elif sea_state == "Choppy": += 0.2
SeaStateScore(sea_state) ==
    CASE sea_state = "Rough" -> 12000
      [] sea_state = "Choppy" -> 6000
      [] OTHER -> 0

\* if wind_speed == "Very High": += 0.2  elif wind_speed == "High": += 0.1
WindScore(wind_speed) ==
    CASE wind_speed = "Very High" -> 6000
      [] wind_speed = "High" -> 3000
      [] OTHER -> 0

IndigenousScore(sea_state, wind_speed) ==
    0 + SeaStateScore(sea_state) + WindScore(wind_speed)

TideUncapped(tide_level) == (tide_level * 6000) \div 30

\* min((tide_level / 3.0) * 0.2, 0.2), tide_level in tenths of a metre
TideContribution(tide_level) == Min((tide_level * 6000) \div 30, 6000)

\* min((rainfall_mm / 500.0) * 0.15, 0.15)
RainfallContribution(rainfall_mm) == Min((rainfall_mm * 4500) \div 500, 4500)

\* min(mangrove_width / 100, 0.5)
ProtectionFactor(mangrove_width) == Min((mangrove_width * RiskOne) \div 100, 15000)

FinalRisk(mangrove_width, sea_state, wind_speed, tide_level, rainfall_mm) ==
    satellite_flood_risk + IndigenousScore(sea_state, wind_speed)
        + TideContribution(tide_level) + RainfallContribution(rainfall_mm)
        - ProtectionFactor(mangrove_width)

ClampUpperOnly(x) == Min(RiskOne, x)

ClampLowerOnly(x) == Max(0, x)

\* max(0.0, min(1.0, final_risk))
Clamp01(x) == Max(0, Min(RiskOne, x))

\* round(x, 2): the result in hundredths
Round2(x) == RoundHalfEven(x, RiskOne \div 100)

calculate_hybrid_risk(mangrove_width, sea_state, wind_speed, tide_level, rainfall_mm) ==
    Round2(Clamp01(FinalRisk(mangrove_width, sea_state, wind_speed,
                             tide_level, rainfall_mm)))

\* Input grids of the fusion formula.
MaxWidthStep == 6
MaxTideStep == 8
MaxRainStep == 6

MangroveWidths == {17 * k : k \in 0..MaxWidthStep}
SeaStates == {"Calm", "Choppy", "Rough"}
WindSpeeds == {"Normal", "High", "Very High"}
TideLevels == {5 * k : k \in 0..MaxTideStep}
Rainfalls == {100 * k : k \in 0..MaxRainStep}

FusionInputs == MangroveWidths \X SeaStates \X WindSpeeds \X TideLevels \X Rainfalls

(***************************************************************************)
(* Community observation store and validator: src/community_reports.py    *)
(***************************************************************************)

One == 10000

\* SQL NULL in the columns validator_id and validation_timestamp
NullText == "NULL"
NullTime == -1

\* SEVERITY_LEVELS.get(severity, 0.5)
SeverityWeight(severity) ==
    CASE severity = "LOW" -> 2000
      [] severity = "MODERATE" -> 5000
      [] severity = "HIGH" -> 7500
      [] severity = "CRITICAL" -> 9500
      [] OTHER -> 5000

\* round(x, 3): the result in thousandths
Round3(x) == RoundHalfEven(x, One \div 1000)

\* INSERT OR IGNORE INTO observers (...) VALUES (..., now, 0.5); the columns
\* left out take the schema defaults total_observations 0, is_verified 0
NewObserver(name, role, lat, lon) ==
    [name |-> name, role |-> role, location_lat |-> lat, location_lon |-> lon,
     total_observations |-> 0, accuracy_score |-> 5000,
     registration_date |-> now, is_verified |-> 0]

\* Variant: INSERT OR REPLACE, a second registration overwrites the row
RegisterOrReplace(observer_id, name, role, lat, lon) ==
    /\ observers' =
           [i \in DOMAIN observers \cup {observer_id} |->
               IF i = observer_id THEN NewObserver(name, role, lat, lon)
                                  ELSE observers[i]]
    /\ ret' = [op |-> "register_observer", args |-> <<observer_id, name>>,
               value |-> TRUE]
    /\ UNCHANGED <<observations, validation_history, now, calls>>

RegisterObserver(observer_id, name, role, lat, lon) ==
    /\ observers' =
           IF observer_id \in DOMAIN observers
               THEN observers
               ELSE [i \in DOMAIN observers \cup {observer_id} |->
                        IF i = observer_id THEN NewObserver(name, role, lat, lon)
                                           ELSE observers[i]]
    /\ ret' = [op |-> "register_observer", args |-> <<observer_id, name>>,
               value |-> TRUE]
    /\ UNCHANGED <<observations, validation_history, now, calls>>

\* Variant: an unregistered submitter is stored under its observer_id
ObserverNameOrId(observer_id) ==
    IF observer_id \in DOMAIN observers THEN observers[observer_id].name
                                        ELSE observer_id

\* SELECT name FROM observers WHERE observer_id = ?; 'Anonymous' without a row
ObserverName(observer_id) ==
    IF observer_id \in DOMAIN observers THEN observers[observer_id].name
                                        ELSE "Anonymous"

\* Variant: the new row is scored with the observer's confidence at once
NewObservationScored(observer_id, obs_type, description, location, severity, confidence) ==
    [observer_id |-> observer_id, observer_name |-> ObserverName(observer_id),
     location_lat |-> location[1], location_lon |-> location[2],
     observation_type |-> obs_type, description |-> description,
     confidence_level |-> confidence, timestamp |-> now, severity |-> severity,
     validated |-> 0, validator_id |-> NullText,
     validation_timestamp |-> NullTime, reliability_score |-> confidence]

\* INSERT INTO observations (...): validated, validator_id,
\* validation_timestamp and reliability_score take the schema defaults
NewObservation(observer_id, obs_type, description, location, severity, confidence) ==
    [observer_id |-> observer_id, observer_name |-> ObserverName(observer_id),
     location_lat |-> location[1], location_lon |-> location[2],
     observation_type |-> obs_type, description |-> description,
     confidence_level |-> confidence, timestamp |-> now, severity |-> severity,
     validated |-> 0, validator_id |-> NullText,
     validation_timestamp |-> NullTime, reliability_score |-> 0]

\* Variant: the counter is set from the number of rows of the observer_id
SubmitCountingRows(observer_id, obs_type, description, location, severity, confidence) ==
    /\ observations' = Append(observations,
           NewObservation(observer_id, obs_type, description, location,
                          severity, confidence))
    /\ observers' =
           IF observer_id \in DOMAIN observers
               THEN [observers EXCEPT ![observer_id].total_observations =
                        Cardinality({i \in DOMAIN observations' :
                            observations'[i].observer_id = observer_id})]
               ELSE observers
    /\ ret' = [op |-> "submit_observation",
               args |-> <<observer_id, obs_type, location, severity, confidence>>,
               value |-> Len(observations) + 1]
    /\ UNCHANGED <<validation_history, now, calls>>

SubmitObservation(observer_id, obs_type, description, location, severity, confidence) ==
    /\ observations' = Append(observations,
           NewObservation(observer_id, obs_type, description, location,
                          severity, confidence))
    /\ observers' =
           IF observer_id \in DOMAIN observers
               THEN [observers EXCEPT ![observer_id].total_observations = @ + 1]
               ELSE observers
    /\ ret' = [op |-> "submit_observation",
               args |-> <<observer_id, obs_type, location, severity, confidence>>,
               value |-> Len(observations) + 1]
    /\ UNCHANGED <<validation_history, now, calls>>

\* Variant: the history keeps one record per observation, a later
\* validation of the same observation replaces the earlier record
ValidateReplacingRecord(observation_id, validator_id, is_valid, reliability_adjustment, notes) ==
    /\ observations' =
           IF observation_id \in DOMAIN observations
               THEN [observations EXCEPT
                        ![observation_id].validated = IF is_valid THEN 1 ELSE 0,
                        ![observation_id].validator_id = validator_id,
                        ![observation_id].validation_timestamp = now]
               ELSE observations
    /\ validation_history' = Append(
           SelectSeq(validation_history,
                     LAMBDA r : r.observation_id # observation_id),
           [observation_id |-> observation_id, validator_id |-> validator_id,
            validation_date |-> now,
            validation_result |-> IF is_valid THEN "VALID" ELSE "INVALID",
            reliability_adjustment |-> reliability_adjustment, notes |-> notes])
    /\ ret' = [op |-> "validate_observation",
               args |-> <<observation_id, validator_id, is_valid>>, value |-> TRUE]
    /\ UNCHANGED <<observers, now, calls>>

\* Variant: a validation moves the accuracy_score of the submitter
ValidateAdjustingAccuracy(observation_id, validator_id, is_valid, reliability_adjustment, notes) ==
    /\ observations' =
           IF observation_id \in DOMAIN observations
               THEN [observations EXCEPT
                        ![observation_id].validated = IF is_valid THEN 1 ELSE 0,
                        ![observation_id].validator_id = validator_id,
                        ![observation_id].validation_timestamp = now]
               ELSE observations
    /\ validation_history' = Append(validation_history,
           [observation_id |-> observation_id, validator_id |-> validator_id,
            validation_date |-> now,
            validation_result |-> IF is_valid THEN "VALID" ELSE "INVALID",
            reliability_adjustment |-> reliability_adjustment, notes |-> notes])
    /\ observers' =
           IF /\ observation_id \in DOMAIN observations
              /\ observations[observation_id].observer_id \in DOMAIN observers
               THEN [observers EXCEPT
                        ![observations[observation_id].observer_id].accuracy_score =
                            IF is_valid THEN Min(@ + 500, One)
                                        ELSE Max(@ - 500, 0)]
               ELSE observers
    /\ ret' = [op |-> "validate_observation",
               args |-> <<observation_id, validator_id, is_valid>>, value |-> TRUE]
    /\ UNCHANGED <<now, calls>>

\* UPDATE observations ... WHERE id = ? touches no row when the id is absent;
\* the INSERT INTO validation_history runs either way
ValidateObservation(observation_id, validator_id, is_valid, reliability_adjustment, notes) ==
    /\ observations' =
           IF observation_id \in DOMAIN observations
               THEN [observations EXCEPT
                        ![observation_id].validated = IF is_valid THEN 1 ELSE 0,
                        ![observation_id].validator_id = validator_id,
                        ![observation_id].validation_timestamp = now]
               ELSE observations
    /\ validation_history' = Append(validation_history,
           [observation_id |-> observation_id, validator_id |-> validator_id,
            validation_date |-> now,
            validation_result |-> IF is_valid THEN "VALID" ELSE "INVALID",
            reliability_adjustment |-> reliability_adjustment, notes |-> notes])
    /\ ret' = [op |-> "validate_observation",
               args |-> <<observation_id, validator_id, is_valid>>, value |-> TRUE]
    /\ UNCHANGED <<observers, now, calls>>

\* SELECT ... FROM observations o JOIN observers c ON o.observer_id =
\* c.observer_id WHERE o.id = ?: a row exists iff the observation is stored
\* and its observer_id is registered
HasJoinedRow(observation_id) ==
    /\ observation_id \in DOMAIN observations
    /\ observations[observation_id].observer_id \in DOMAIN observers

BaseScoreSwappedWeights(observer_accuracy, confidence, severity) ==
    (((observer_accuracy * confidence) \div One) * 3) \div 10
        + (SeverityWeight(severity) * 7) \div 10

\* base_score = observer_accuracy; base_score *= confidence;
\* base_score = base_score * 0.7 + severity_weight * 0.3
BaseScore(observer_accuracy, confidence, severity) ==
    (((observer_accuracy * confidence) \div One) * 7) \div 10
        + (SeverityWeight(severity) * 3) \div 10

\* if validated: base_score = min(base_score + 0.15, 1.0)
ValidationBoost(base_score, validated) ==
    IF validated # 0 THEN Min(base_score + 1500, One) ELSE base_score

CountWithSelf(observation_id) ==
    LET me == observations[observation_id]
    IN  Cardinality({j \in DOMAIN observations :
            /\ observations[j].location_lat >= me.location_lat - 9
            /\ observations[j].location_lat <= me.location_lat + 9
            /\ observations[j].location_lon >= me.location_lon - 9
            /\ observations[j].location_lon <= me.location_lon + 9
            /\ observations[j].observation_type = me.observation_type
            /\ observations[j].validated = 1})

\* SELECT COUNT(*) FROM observations WHERE location_lat BETWEEN lat - 0.09 AND
\* lat + 0.09 AND location_lon BETWEEN lon - 0.09 AND lon + 0.09 AND
\* observation_type = (type of id) AND id != ? AND validated = 1
CorroborationCount(observation_id) ==
    LET me == observations[observation_id]
    IN  Cardinality({j \in DOMAIN observations :
            /\ observations[j].location_lat >= me.location_lat - 9
            /\ observations[j].location_lat <= me.location_lat + 9
            /\ observations[j].location_lon >= me.location_lon - 9
            /\ observations[j].location_lon <= me.location_lon + 9
            /\ observations[j].observation_type = me.observation_type
            /\ j # observation_id
            /\ observations[j].validated = 1})

BoostUncapped(base_score, corroboration_count) ==
    IF corroboration_count > 0
        THEN base_score + corroboration_count * 500
        ELSE base_score

\* if corroboration_count > 0:
\*     base_score = min(base_score + (corroboration_count * 0.05), 1.0)
CorroborationBoost(base_score, corroboration_count) ==
    IF corroboration_count > 0
        THEN Min(base_score + corroboration_count * 500, One)
        ELSE base_score

ScoreFromStored(observation_id) ==
    LET o == observations[observation_id]
    IN  CorroborationBoost(
            ValidationBoost(
                Max(o.reliability_score,
                    BaseScore(observers[o.observer_id].accuracy_score,
                              o.confidence_level, o.severity)),
                o.validated),
            CorroborationCount(observation_id))

\* the value of base_score when it is written back (lines 277-312)
ReliabilityScore(observation_id) ==
    LET o == observations[observation_id]
    IN  CorroborationBoost(
            ValidationBoost(
                BaseScore(observers[o.observer_id].accuracy_score,
                          o.confidence_level, o.severity),
                o.validated),
            CorroborationCount(observation_id))

\* return round(base_score, 3)
ReturnedScore(base_score) == Round3(base_score)

FallbackMinusOne == 0 - 1

\* if not result: return 0.0
NotFoundReturn == 0

\* ret.repeat records that the call before this one was the same call
CalculateObservationReliability(observation_id) ==
    LET again == /\ ret.op = "calculate_observation_reliability"
                 /\ ret.args = <<observation_id>>
    IN
    IF ~HasJoinedRow(observation_id)
        THEN /\ ret' = [op |-> "calculate_observation_reliability",
                        args |-> <<observation_id>>, value |-> NotFoundReturn,
                        row |-> FALSE, repeat |-> again]
             /\ UNCHANGED <<observers, observations, validation_history, now, calls>>
        ELSE LET base_score == ReliabilityScore(observation_id)
             IN  /\ observations' =
                        [observations EXCEPT
                            ![observation_id].reliability_score = base_score]
                 /\ ret' = [op |-> "calculate_observation_reliability",
                            args |-> <<observation_id>>,
                            value |-> ReturnedScore(base_score), row |-> TRUE,
                            repeat |-> again,
                            corroboration_count |->
                                CorroborationCount(observation_id)]
                 /\ UNCHANGED <<observers, validation_history, now, calls>>

(***************************************************************************)
(* TraditionalKnowledgeModifier.calculate_indigenous_score_from_           *)
(* observations.  A contribution severity_weight * reliability_score is in *)
(* units of 1/One^2; the sub-scores divide by 3 and by 9 and are kept in   *)
(* units of 1/(9 * One^2) (AggOne = 1.0); returned values are thousandths. *)
(***************************************************************************)
AggOne == 900000000

\* search_radius = 0.45
search_radius == 45

HoursPerDay == 24

\* The calendar date and the time of day of a clock reading
DateOf(t) == t \div HoursPerDay
TimeOf(t) == t % HoursPerDay

\* timestamp > datetime('now', '-' || ? || ' hours') compares two texts.
\* The stored text is datetime.now().isoformat(), 'YYYY-MM-DDTHH:MM:SS.ffffff';
\* sqlite's datetime() yields 'YYYY-MM-DD HH:MM:SS'.  With equal dates the
\* first differing character is 'T' against ' ', and 'T' sorts after ' ',
\* so the times of day are never compared.  (Process timezone: UTC.)
CharCode(c) == IF c = "T" THEN 84 ELSE 32
TimestampAfter(timestamp, cutoff) ==
    \/ DateOf(timestamp) > DateOf(cutoff)
    \/ /\ DateOf(timestamp) = DateOf(cutoff)
       /\ \/ CharCode("T") > CharCode(" ")
          \/ /\ CharCode("T") = CharCode(" ")
             /\ TimeOf(timestamp) > TimeOf(cutoff)

\* WHERE location_lat BETWEEN ? AND ? AND location_lon BETWEEN ? AND ?
\*   AND validated = 1 AND timestamp > datetime('now', '-' || ? || ' hours')
MatchingRows(location, hours_back) ==
    {i \in DOMAIN observations :
        /\ observations[i].location_lat >= location[1] - search_radius
        /\ observations[i].location_lat <= location[1] + search_radius
        /\ observations[i].location_lon >= location[2] - search_radius
        /\ observations[i].location_lon <= location[2] + search_radius
        /\ observations[i].validated = 1
        /\ TimestampAfter(observations[i].timestamp, now - hours_back)}

\* scores = {...}: the six categories that have an accumulator
ScoreCategories == {"anomalous_waves", "wind_pattern_shift", "tidal_anomaly",
                    "wildlife_behavior", "coastal_erosion", "mangrove_stress"}

\* Variant: the accumulator is overwritten by each row, so that it holds the
\* contribution of the last row of the categories
CategoryLatest(rows, cats) ==
    LET of_cats == {i \in rows : observations[i].observation_type \in cats}
    IN  IF of_cats = {} THEN 0
        ELSE LET i == CHOOSE j \in of_cats : \A k \in of_cats : k <= j
             IN  SeverityWeight(observations[i].severity)
                     * observations[i].reliability_score

\* scores[obs_type] += SEVERITY_LEVELS.get(severity, 0.5) * reliability_score,
\* summed over the rows whose category is in cats
RECURSIVE CategoryScore(_, _)
CategoryScore(rows, cats) ==
    IF rows = {} THEN 0
    ELSE LET i == CHOOSE j \in rows : TRUE
             contribution ==
                 IF observations[i].observation_type \in cats
                     THEN SeverityWeight(observations[i].severity)
                              * observations[i].reliability_score
                     ELSE 0
         IN  contribution + CategoryScore(rows \ {i}, cats)

WaveUncapped(raw) == 3 * raw

\* wave_score = min(scores['anomalous_waves'] / 3, 0.4)
WaveScore(raw) == Min(3 * raw, 4 * (AggOne \div 10))

\* wind_score = min(scores['wind_pattern_shift'] / 3, 0.3)
WindAnomalyScore(raw) == Min(3 * raw, 3 * (AggOne \div 10))

\* tidal_score = min(scores['tidal_anomaly'] / 3, 0.25)
TidalScore(raw) == Min(3 * raw, AggOne \div 4)

\* ecosystem_score = min((wildlife + erosion + mangrove) / 9, 0.2)
EcosystemScore(raw) == Min(raw, AggOne \div 5)

TotalUncapped(wave, wind, tidal, ecosystem) == wave + wind + tidal + ecosystem

\* total_score = min(wave + wind + tidal + ecosystem, 1.0)
TotalScore(wave, wind, tidal, ecosystem) ==
    Min(wave + wind + tidal + ecosystem, AggOne)

ConfidenceUncapped(n) == n * (AggOne \div 5)

\* confidence = min(len(df) / 5, 1.0)
AggConfidence(n) == Min(n * (AggOne \div 5), AggOne)

\* round(x, 3)
AggRound3(x) == RoundHalfEven(x, AggOne \div 1000)

\* if df.empty: every field is zero
EmptyResult ==
    [wave_anomaly_score |-> 0, wind_anomaly_score |-> 0,
     tidal_anomaly_score |-> 0, ecosystem_stress_score |-> 0,
     total_indigenous_score |-> 0, confidence |-> 0, num_observations |-> 0]

\* except Exception: the three-field fallback
ErrorResult ==
    [total_indigenous_score |-> 0, confidence |-> 0, num_observations |-> 0]

\* Variant: a row whose category has no accumulator is counted and skipped
IndigenousScoreSkippingUnknown(rows) ==
    LET wave == WaveScore(CategoryScore(rows, {"anomalous_waves"}))
        wind == WindAnomalyScore(CategoryScore(rows, {"wind_pattern_shift"}))
        tidal == TidalScore(CategoryScore(rows, {"tidal_anomaly"}))
        ecosystem == EcosystemScore(CategoryScore(rows,
                         {"wildlife_behavior", "coastal_erosion", "mangrove_stress"}))
    IN  IF rows = {} THEN EmptyResult
        ELSE [wave_anomaly_score |-> AggRound3(wave),
              wind_anomaly_score |-> AggRound3(wind),
              tidal_anomaly_score |-> AggRound3(tidal),
              ecosystem_stress_score |-> AggRound3(ecosystem),
              total_indigenous_score |->
                  AggRound3(TotalScore(wave, wind, tidal, ecosystem)),
              confidence |-> AggRound3(AggConfidence(Cardinality(rows))),
              num_observations |-> Cardinality(rows)]

\* The returned dictionary (observations_summary, a copy of the matching
\* rows, is left out).  A matching row whose category has no accumulator
\* raises KeyError inside the loop and the fallback is returned.
IndigenousScoreOfRows(rows) ==
    LET wave == WaveScore(CategoryScore(rows, {"anomalous_waves"}))
        wind == WindAnomalyScore(CategoryScore(rows, {"wind_pattern_shift"}))
        tidal == TidalScore(CategoryScore(rows, {"tidal_anomaly"}))
        ecosystem == EcosystemScore(CategoryScore(rows,
                         {"wildlife_behavior", "coastal_erosion", "mangrove_stress"}))
    IN  IF rows = {} THEN EmptyResult
        ELSE IF \E i \in rows : observations[i].observation_type \notin ScoreCategories
            THEN ErrorResult
        ELSE [wave_anomaly_score |-> AggRound3(wave),
              wind_anomaly_score |-> AggRound3(wind),
              tidal_anomaly_score |-> AggRound3(tidal),
              ecosystem_stress_score |-> AggRound3(ecosystem),
              total_indigenous_score |->
                  AggRound3(TotalScore(wave, wind, tidal, ecosystem)),
              confidence |-> AggRound3(AggConfidence(Cardinality(rows))),
              num_observations |-> Cardinality(rows)]

\* df = pd.read_sql_query(query, conn, params=...) and the scores of its rows
IndigenousScoreFromObservations(location, hours_back) ==
    IndigenousScoreOfRows(MatchingRows(location, hours_back))

\* Variant: the query logs itself in validation_history
CalculateIndigenousScoreLogged(location, hours_back) ==
    /\ ret' = [op |-> "calculate_indigenous_score_from_observations",
               args |-> <<location, hours_back>>,
               value |-> IndigenousScoreFromObservations(location, hours_back),
               rows |-> MatchingRows(location, hours_back), at |-> now]
    /\ validation_history' = Append(validation_history,
           [observation_id |-> 0, validator_id |-> "aggregator",
            validation_date |-> now, validation_result |-> "VALID",
            reliability_adjustment |-> 0, notes |-> ""])
    /\ UNCHANGED <<observers, observations, now, calls>>

\* The query only reads the store.  ret.rows records the ids of the rows the
\* query selected (the rows of observations_summary), ret.at the clock
\* reading of the call.
CalculateIndigenousScore(location, hours_back) ==
    /\ ret' = [op |-> "calculate_indigenous_score_from_observations",
               args |-> <<location, hours_back>>,
               value |-> IndigenousScoreFromObservations(location, hours_back),
               rows |-> MatchingRows(location, hours_back), at |-> now]
    /\ UNCHANGED <<observers, observations, validation_history, now, calls>>

(***************************************************************************)
(* CommunityObservationValidator.get_recent_observations                   *)
(***************************************************************************)

\* params = [f'-{days}', ...] and datetime('now', ? || 'days'): the modifier
\* text is the number followed at once by the unit, e.g. '-7days'
DaysModifier(days) == [amount |-> 0 - days, gap |-> "", unit |-> "days"]

\* sqlite's datetime('now', modifier) reads a modifier 'NNN days' as a number
\* that ends at white space and a unit after it; for any other text the
\* result is NULL
SqliteDatetimeNow(modifier) ==
    IF modifier.gap = " " /\ modifier.unit = "days"
        THEN [null |-> FALSE, time |-> now + modifier.amount * HoursPerDay]
        ELSE [null |-> TRUE]

\* WHERE timestamp > datetime('now', ? || 'days') AND validated = 1
\*   AND reliability_score >= ? [AND observation_type = ?]
\* A comparison with NULL is NULL and selects no row.  obs_type = NullText
\* stands for None: "if obs_type:" adds no condition.
RecentRows(days, obs_type, min_reliability) ==
    LET cutoff == SqliteDatetimeNow(DaysModifier(days))
    IN  {i \in DOMAIN observations :
            /\ ~cutoff.null
            /\ TimestampAfter(observations[i].timestamp, cutoff.time)
            /\ observations[i].validated = 1
            /\ observations[i].reliability_score >= min_reliability
            /\ obs_type # NullText => observations[i].observation_type = obs_type}

\* ORDER BY timestamp DESC: the orders of rows in which no row comes before
\* a newer one (rows of equal timestamp come in either order)
NewestFirst(rows) ==
    {s \in [1..Cardinality(rows) -> rows] :
        /\ \A j, k \in DOMAIN s : j # k => s[j] # s[k]
        /\ \A j, k \in DOMAIN s :
               j < k => observations[s[j]].timestamp >= observations[s[k]].timestamp}

\* The returned frame, as the ids of its rows in order; the query only reads
GetRecentObservations(days, obs_type, min_reliability) ==
    /\ \E frame \in NewestFirst(RecentRows(days, obs_type, min_reliability)) :
           ret' = [op |-> "get_recent_observations",
                   args |-> <<days, obs_type, min_reliability>>,
                   value |-> frame, at |-> now]
    /\ UNCHANGED <<observers, observations, validation_history, now, calls>>

(***************************************************************************)
(* validate_observation and submit_observation statement by statement,     *)
(* for callers that run at the same time, each call on its own sqlite      *)
(* connection.  The sqlite3 module opens a transaction before the first    *)
(* INSERT or UPDATE; that statement takes the database's write lock, held  *)
(* until the transaction ends; a connection that finds the lock taken      *)
(* waits and, after the busy timeout, raises "database is locked".  Writes *)
(* become visible at commit.  A call that raises inside its transaction    *)
(* returns from the except branch without commit, rollback or close: its   *)
(* connection stays open, holding the lock ("leaked"), until the garbage   *)
(* collector closes it, which rolls the transaction back.                  *)
(***************************************************************************)
Callers == {"elder1", "elder2"}

InTransaction == {"updated", "inserted", "stored", "counted", "leaked"}

LockHolders == {c \in DOMAIN calls : calls[c].pc \in InTransaction}

\* return False / return -1 of the except branches
FailureValue(op) == IF op = "submit_observation" THEN 0 - 1 ELSE FALSE

\* conn = sqlite3.connect(self.db_path); the validator_id is the caller's
BeginValidate(c, observation_id, is_valid) ==
    /\ c \notin DOMAIN calls
    /\ calls' = calls @@ (c :> [op |-> "validate_observation",
                               pc |-> "connected",
                               args |-> <<observation_id, c, is_valid>>,
                               observation_id |-> observation_id,
                               validator_id |-> c, is_valid |-> is_valid,
                               updated_at |-> NullTime, inserted_at |-> NullTime,
                               value |-> NullText])
    /\ UNCHANGED <<observers, observations, validation_history, now, ret>>

\* cursor.execute(UPDATE observations SET ... WHERE id = ?) with
\* datetime.now().isoformat() as validation_timestamp
UpdateRow(c) ==
    /\ c \in DOMAIN calls
    /\ calls[c].pc = "connected"
    /\ LockHolders = {}
    /\ calls' = [calls EXCEPT ![c].pc = "updated", ![c].updated_at = now]
    /\ UNCHANGED <<observers, observations, validation_history, now, ret>>

\* The first write finds the lock taken until the timeout:
\* except Exception: return False (validate), return -1 (submit)
BusyTimeout(c) ==
    /\ c \in DOMAIN calls
    /\ calls[c].pc = "connected"
    /\ LockHolders # {}
    /\ calls' = [calls EXCEPT ![c].pc = "done",
                              ![c].value = FailureValue(calls[c].op)]
    /\ ret' = [op |-> calls[c].op, args |-> calls[c].args,
               value |-> FailureValue(calls[c].op)]
    /\ UNCHANGED <<observers, observations, validation_history, now>>

\* cursor.execute(INSERT INTO validation_history ...) with
\* datetime.now().isoformat() as validation_date
InsertRecord(c) ==
    /\ c \in DOMAIN calls
    /\ calls[c].pc = "updated"
    /\ calls' = [calls EXCEPT ![c].pc = "inserted", ![c].inserted_at = now]
    /\ UNCHANGED <<observers, observations, validation_history, now, ret>>

\* Variant: the UPDATE keeps the validator_id of a row already validated
ValidatedRowFirstValidator(row, call) ==
    [row EXCEPT !.validated = IF call.is_valid THEN 1 ELSE 0,
                !.validator_id = IF @ = NullText THEN call.validator_id ELSE @,
                !.validation_timestamp = call.updated_at]

\* SET validated = ?, validator_id = ?, validation_timestamp = ?: one
\* statement writes the three fields of the row
ValidatedRow(row, call) ==
    [row EXCEPT !.validated = IF call.is_valid THEN 1 ELSE 0,
                !.validator_id = call.validator_id,
                !.validation_timestamp = call.updated_at]

\* conn.commit(); conn.close(); return True
CommitValidation(c) ==
    /\ c \in DOMAIN calls
    /\ calls[c].pc = "inserted"
    /\ observations' =
           IF calls[c].observation_id \in DOMAIN observations
               THEN [observations EXCEPT
                        ![calls[c].observation_id] = ValidatedRow(@, calls[c])]
               ELSE observations
    /\ validation_history' = Append(validation_history,
           [observation_id |-> calls[c].observation_id,
            validator_id |-> calls[c].validator_id,
            validation_date |-> calls[c].inserted_at,
            validation_result |-> IF calls[c].is_valid THEN "VALID" ELSE "INVALID",
            reliability_adjustment |-> 0, notes |-> ""])
    /\ calls' = [calls EXCEPT ![c].pc = "done", ![c].value = TRUE]
    /\ ret' = [op |-> "validate_observation", args |-> calls[c].args,
               value |-> TRUE]
    /\ UNCHANGED <<observers, now>>

\* submit_observation: connect and SELECT name FROM observers
BeginSubmit(c, obs_type, description, location, severity, confidence) ==
    /\ c \notin DOMAIN calls
    /\ calls' = calls @@ (c :> [op |-> "submit_observation",
                               pc |-> "connected",
                               args |-> <<c, obs_type, location, severity,
                                          confidence>>,
                               description |-> description,
                               observer_name |-> ObserverName(c),
                               row |-> NullText, value |-> NullText])
    /\ UNCHANGED <<observers, observations, validation_history, now, ret>>

\* cursor.execute(INSERT INTO observations ...); cursor.lastrowid.  The row
\* carries the name selected before and datetime.now() of this statement.
InsertObservation(c) ==
    /\ c \in DOMAIN calls
    /\ calls[c].op = "submit_observation"
    /\ calls[c].pc = "connected"
    /\ LockHolders = {}
    /\ calls' = [calls EXCEPT
                    ![c].pc = "stored",
                    ![c].row = [NewObservation(c, calls[c].args[2],
                                    calls[c].description, calls[c].args[3],
                                    calls[c].args[4], calls[c].args[5])
                                EXCEPT !.observer_name = calls[c].observer_name]]
    /\ UNCHANGED <<observers, observations, validation_history, now, ret>>

\* cursor.execute(UPDATE observers SET total_observations = ... + 1 ...)
UpdateCounter(c) ==
    /\ c \in DOMAIN calls
    /\ calls[c].pc = "stored"
    /\ calls' = [calls EXCEPT ![c].pc = "counted"]
    /\ UNCHANGED <<observers, observations, validation_history, now, ret>>

\* conn.commit(); conn.close(); return observation_id
CommitSubmission(c) ==
    /\ c \in DOMAIN calls
    /\ calls[c].pc = "counted"
    /\ observations' = Append(observations, calls[c].row)
    /\ observers' =
           IF c \in DOMAIN observers
               THEN [observers EXCEPT ![c].total_observations = @ + 1]
               ELSE observers
    /\ calls' = [calls EXCEPT ![c].pc = "done",
                              ![c].value = Len(observations) + 1]
    /\ ret' = [op |-> "submit_observation", args |-> calls[c].args,
               value |-> Len(observations) + 1]
    /\ UNCHANGED <<validation_history, now>>

\* Variant: the except branch commits what the call has written so far
FaultKeepingWrites(c) ==
    /\ c \in DOMAIN calls
    /\ calls[c].pc \in InTransaction \ {"leaked"}
    /\ observations' =
           IF calls[c].op = "submit_observation"
               THEN Append(observations, calls[c].row)
               ELSE IF calls[c].observation_id \in DOMAIN observations
                   THEN [observations EXCEPT
                            ![calls[c].observation_id] = ValidatedRow(@, calls[c])]
                   ELSE observations
    /\ calls' = [calls EXCEPT ![c].pc = "done",
                              ![c].value = FailureValue(calls[c].op)]
    /\ ret' = [op |-> calls[c].op, args |-> calls[c].args,
               value |-> FailureValue(calls[c].op), fault |-> calls[c].pc]
    /\ UNCHANGED <<observers, validation_history, now>>

\* A statement or the commit raises inside the transaction:
\* except Exception: print(...); return -1 / return False.  Nothing is
\* committed and the connection is left open.
FaultInTransaction(c) ==
    /\ c \in DOMAIN calls
    /\ calls[c].pc \in InTransaction \ {"leaked"}
    /\ calls' = [calls EXCEPT ![c].pc = "leaked",
                              ![c].value = FailureValue(calls[c].op)]
    /\ ret' = [op |-> calls[c].op, args |-> calls[c].args,
               value |-> FailureValue(calls[c].op), fault |-> calls[c].pc]
    /\ UNCHANGED <<observers, observations, validation_history, now>>

\* sqlite3.connect or the SELECT raises before any write
FaultBeforeWrite(c) ==
    /\ c \in DOMAIN calls
    /\ calls[c].pc = "connected"
    /\ calls' = [calls EXCEPT ![c].pc = "done",
                              ![c].value = FailureValue(calls[c].op)]
    /\ ret' = [op |-> calls[c].op, args |-> calls[c].args,
               value |-> FailureValue(calls[c].op), fault |-> calls[c].pc]
    /\ UNCHANGED <<observers, observations, validation_history, now>>

\* The garbage collector closes a leaked connection: sqlite rolls the open
\* transaction back and the lock is free again
CollectConnection(c) ==
    /\ c \in DOMAIN calls
    /\ calls[c].pc = "leaked"
    /\ calls' = [calls EXCEPT ![c].pc = "done"]
    /\ UNCHANGED <<observers, observations, validation_history, now, ret>>

\* The caller has its result and may call again
ReturnToCaller(c) ==
    /\ c \in DOMAIN calls
    /\ calls[c].pc = "done"
    /\ calls' = [d \in DOMAIN calls \ {c} |-> calls[d]]
    /\ UNCHANGED <<observers, observations, validation_history, now, ret>>

\* datetime.now() advances between calls.  Scoring reads no timestamp, and
\* the specifications of scoring below hold the clock still.
Tick ==
    /\ now' = now + 1
    /\ UNCHANGED <<observers, observations, validation_history, ret, calls>>


\* A caller evaluates the pure function on the arguments it holds.
CalculateHybridRisk ==
    /\ ret.op = "call_hybrid_risk"
    /\ ret' = [op |-> "calculate_hybrid_risk", args |-> ret.args,
               value |-> calculate_hybrid_risk(ret.args[1], ret.args[2], ret.args[3],
                                               ret.args[4], ret.args[5])]
    /\ UNCHANGED <<observers, observations, validation_history, now, calls>>

\* get_indigenous_risk_score(location, hours_back=24)
DefaultHoursBack == 24

\* A caller obtains get_indigenous_risk_score(location) and evaluates the
\* fusion.  calculate_hybrid_risk has the five parameters below and no other:
\* the score the caller holds (ret.community) cannot be passed to it.
FuseCommunityRisk(a, location) ==
    /\ ret' = [op |-> "calculate_hybrid_risk", args |-> a,
               community |-> IndigenousScoreFromObservations(location,
                                                             DefaultHoursBack),
               value |-> calculate_hybrid_risk(a[1], a[2], a[3], a[4], a[5])]
    /\ UNCHANGED <<observers, observations, validation_history, now, calls>>

EmptyStore ==
    /\ observers = <<>>
    /\ observations = <<>>
    /\ validation_history = <<>>
    /\ now = 0
    /\ calls = <<>>

Init ==
    /\ EmptyStore
    /\ ret = [op |-> "none"]

\* The fusion formula reads no store state: its specification draws the
\* arguments of one pending call from the input grid and applies the function.
InitFusion ==
    /\ EmptyStore
    /\ \E a \in FusionInputs : ret = [op |-> "call_hybrid_risk", args |-> a]

NextFusion == CalculateHybridRisk

SpecFusion == InitFusion /\ [][NextFusion]_vars

(***************************************************************************)
(* Specifications of the store.  Every operation is one atomic step (one   *)
(* sqlite connection, one commit).  Inputs are drawn from small sets; the  *)
(* bounds cap the number of rows and the clock.                            *)
(***************************************************************************)

MaxObs == 2
MaxValidations == 2

Severities == {"LOW", "MODERATE", "HIGH", "CRITICAL"}
Confidences == {3340, One}

\* every severity, confidence 0 and 1.0, and a confidence whose score has a
\* fourth decimal
ScoreReports ==
    {<<"LOW", 3340>>, <<"LOW", One>>, <<"MODERATE", One>>, <<"HIGH", 3340>>,
     <<"CRITICAL", One>>, <<"CRITICAL", 0>>}

\* ids whose reliability is asked for: the first report and an id that is
\* not stored
ScoredIds == {1, Len(observations) + 1}

Register == RegisterObserver("fisher1", "Asha", "fisherman", 0, 0)

Registered == "fisher1" \in DOMAIN observers

\* Spec: scoring.  A registered observer's reports vary severity and
\* confidence at one place; any report is validated or invalidated, and the
\* reliability of the first report, or of an unknown id, is computed.
Next ==
    \/ Register
    \/ \E r \in ScoreReports :
          /\ Registered
          /\ Len(observations) < MaxObs
          /\ SubmitObservation("fisher1", "anomalous_waves", "report", <<0, 0>>,
                               r[1], r[2])
    \/ \E id \in DOMAIN observations, valid \in BOOLEAN :
          /\ Len(validation_history) < MaxValidations
          /\ ValidateObservation(id, "elder1", valid, 0, "")
    \/ \E id \in ScoredIds : CalculateObservationReliability(id)

Spec == Init /\ [][Next]_vars

MaxCorrObs == 3
MaxCorrValidations == 2

\* <<0,0>> and <<9,9>> are 0.09 degrees apart on both axes, <<10,0>> is 0.10
\* from <<0,0>> in latitude, <<0,10>> is 0.10 from <<0,0>> in longitude
CorrReports ==
    {<<"anomalous_waves", <<0, 0>>>>, <<"anomalous_waves", <<9, 9>>>>,
     <<"anomalous_waves", <<10, 0>>>>, <<"anomalous_waves", <<0, 10>>>>,
     <<"tidal_anomaly", <<0, 0>>>>}

\* SpecCorr: corroboration.  A registered observer's reports vary category
\* and location; the reliability of the first report is recomputed as
\* reports are validated and validated ones are invalidated again.
NextCorr ==
    \/ Register
    \/ \E r \in CorrReports :
          /\ Registered
          /\ Len(observations) < MaxCorrObs
          /\ SubmitObservation("fisher1", r[1], "report", r[2], "MODERATE", 7000)
    \/ \E id \in DOMAIN observations, valid \in BOOLEAN :
          /\ Len(validation_history) < MaxCorrValidations
          /\ ~valid => observations[id].validated = 1
          /\ ValidateObservation(id, "elder1", valid, 0, "")
    \/ CalculateObservationReliability(1)

SpecCorr == Init /\ [][NextCorr]_vars

MaxCapObs == 6
MaxCapValidations == 6

Unvalidated(id) == observations[id].validator_id = NullText

\* SpecCap: many corroborating reports of one event.  The observer may
\* register before, between or after its submissions, or never (a report
\* submitted before registration is "Anonymous").  The first report
\* varies severity and confidence, the later ones are CRITICAL with full
\* confidence; the validator accepts the first report at any time and the
\* later ones in submission order; the reliability of the first report is
\* recomputed in between.
NextCap ==
    \/ Register
    \/ \E sev \in Severities, conf \in {0} \cup Confidences :
          /\ Len(observations) < MaxCapObs
          /\ observations # <<>> => (sev = "CRITICAL" /\ conf = One)
          /\ SubmitObservation("fisher1", "anomalous_waves", "report", <<0, 0>>,
                               sev, conf)
    \/ \E id \in DOMAIN observations :
          /\ Len(validation_history) < MaxCapValidations
          /\ Unvalidated(id)
          /\ \A j \in 2..(id - 1) : ~Unvalidated(j)
          /\ ValidateObservation(id, "elder1", TRUE, 0, "")
    \/ CalculateObservationReliability(1)

SpecCap == Init /\ [][NextCap]_vars

(***************************************************************************)
(* Aggregation.  One registered observer files reports at one place, the   *)
(* k-th report in the k-th category of AggPlan, the first HIGH or CRITICAL *)
(* and the later ones CRITICAL; reports are validated and then scored in   *)
(* submission order, and the aggregator is queried at any time from a      *)
(* place at the centre, on the edge and outside of the search window.  The *)
(* clock stands still.                                                     *)
(***************************************************************************)
MaxAggObs == 8
MaxAggValidations == 8

AggPlan == <<"anomalous_waves", "wildlife_behavior", "coastal_erosion",
             "mangrove_stress", "anomalous_waves", "wind_pattern_shift",
             "wind_pattern_shift", "tidal_anomaly", "tidal_anomaly">>

PlannedCategory(k) == AggPlan[((k - 1) % Len(AggPlan)) + 1]

AggLocations == {<<0, 0>>, <<45, 0 - 45>>, <<46, 0>>}

AggHours == {24}

\* The severities of the first report; with these no sub-score or total of
\* the plan falls exactly halfway between two thousandths
AggSeverities == {"HIGH", "CRITICAL"}

Unscored(id) ==
    /\ id \in DOMAIN observations
    /\ observations[id].validated = 1
    /\ observations[id].reliability_score = 0

NextAgg ==
    \/ /\ ~Registered
       /\ Register
    \/ /\ Registered
       /\ Len(observations) < MaxAggObs
       /\ \E sev \in AggSeverities :
              /\ observations # <<>> => sev = "CRITICAL"
              /\ SubmitObservation("fisher1",
                                   PlannedCategory(Len(observations) + 1),
                                   "report", <<0, 0>>, sev, One)
    \/ /\ Len(validation_history) < MaxAggValidations
       /\ \E id \in DOMAIN observations :
              /\ Unvalidated(id)
              /\ \A j \in 1..(id - 1) : ~Unvalidated(j)
              /\ ValidateObservation(id, "elder1", TRUE, 0, "")
    \/ \E id \in DOMAIN observations :
           /\ Unscored(id)
           /\ \A j \in 1..(id - 1) : ~Unscored(j)
           /\ CalculateObservationReliability(id)
    \/ \E location \in AggLocations, hours_back \in AggHours :
           CalculateIndigenousScore(location, hours_back)

SpecAgg == Init /\ [][NextAgg]_vars

(***************************************************************************)
(* The time window.  The clock reads 22:00 at the start and advances by    *)
(* the hour past midnight; reports are filed inside, on the edge and       *)
(* outside of the search window of the place (0, 0), validated or          *)
(* rejected, and the aggregator is queried for the last hour and the last  *)
(* day.                                                                    *)
(***************************************************************************)
MaxTicks == 3
MaxWindowObs == 2
MaxWindowValidations == 2

StartHour == 22

WindowPlaces == {<<0, 0>>, <<45, 0 - 45>>, <<0, 46>>}

WindowHours == {1, 24}

InitWindow ==
    /\ observers = <<>>
    /\ observations = <<>>
    /\ validation_history = <<>>
    /\ now = StartHour
    /\ calls = <<>>
    /\ ret = [op |-> "none"]

NextWindow ==
    \/ /\ ~Registered
       /\ Register
    \/ /\ Registered
       /\ Len(observations) < MaxWindowObs
       /\ \E location \in WindowPlaces :
              SubmitObservation("fisher1", "anomalous_waves", "report",
                                location, "CRITICAL", One)
    \/ /\ Len(validation_history) < MaxWindowValidations
       /\ \E id \in DOMAIN observations, is_valid \in BOOLEAN :
              ValidateObservation(id, "elder1", is_valid, 0, "")
    \/ CalculateObservationReliability(1)
    \/ /\ now < StartHour + MaxTicks
       /\ Tick
    \/ \E hours_back \in WindowHours :
           CalculateIndigenousScore(<<0, 0>>, hours_back)

SpecWindow == InitWindow /\ [][NextWindow]_vars

(***************************************************************************)
(* The registry.  Two observer ids register, in any order and repeatedly,  *)
(* with either of two sets of particulars, and both submit, registered or  *)
(* not, while the clock advances.                                          *)
(***************************************************************************)
MaxRegObs == 3
MaxRegTicks == 1

ObserverIds == {"fisher1", "fisher2"}

Particulars == {<<"Asha", "fisherman", 0, 0>>, <<"Ravi", "elder", 10, 20>>}

NextReg ==
    \/ \E observer_id \in ObserverIds, p \in Particulars :
           RegisterObserver(observer_id, p[1], p[2], p[3], p[4])
    \/ /\ Len(observations) < MaxRegObs
       /\ \E observer_id \in ObserverIds :
              SubmitObservation(observer_id, "anomalous_waves", "report",
                                <<0, 0>>, "CRITICAL", One)
    \/ /\ now < MaxRegTicks
       /\ Tick

SpecReg == Init /\ [][NextReg]_vars

(***************************************************************************)
(* The audit trail.  One observer registers at any time and submits,       *)
(* registered or not; the validator accepts or rejects any stored id and   *)
(* the first id not yet stored, repeatedly; the first report is scored.    *)
(***************************************************************************)
MaxAuditObs == 2
MaxAuditValidations == 3

NextAudit ==
    \/ Register
    \/ /\ Len(observations) < MaxAuditObs
       /\ SubmitObservation("fisher1", "anomalous_waves", "report", <<0, 0>>,
                            "CRITICAL", One)
    \/ /\ Len(validation_history) < MaxAuditValidations
       /\ \E id \in 1..(Len(observations) + 1), is_valid \in BOOLEAN :
              ValidateObservation(id, "elder1", is_valid, 0, "")
    \/ CalculateObservationReliability(1)

SpecAudit == Init /\ [][NextAudit]_vars

(***************************************************************************)
(* The readers.  A registered observer files CRITICAL reports of two       *)
(* categories at one place; any stored report is accepted or rejected and  *)
(* scored; in between, the recent observations are listed, the aggregator  *)
(* is queried and the fusion is evaluated by a caller that holds the       *)
(* aggregator's score.                                                     *)
(***************************************************************************)
MaxReadObs == 2
MaxReadValidations == 2

ReadCategories == {"anomalous_waves", "wind_pattern_shift"}

\* days = 7, min_reliability = 0.3 are the defaults
RecentDays == {7}
RecentTypes == {NullText, "anomalous_waves"}
RecentThresholds == {0, 3000}

ReadRiskInputs == {<<0, "Calm", "Normal", 0, 0>>, <<17, "Rough", "High", 15, 100>>}

NextRead ==
    \/ /\ ~Registered
       /\ Register
    \/ /\ Registered
       /\ Len(observations) < MaxReadObs
       /\ \E obs_type \in ReadCategories :
              SubmitObservation("fisher1", obs_type, "report", <<0, 0>>,
                                "CRITICAL", One)
    \/ /\ Len(validation_history) < MaxReadValidations
       /\ \E id \in DOMAIN observations, is_valid \in BOOLEAN :
              ValidateObservation(id, "elder1", is_valid, 0, "")
    \/ \E id \in DOMAIN observations : CalculateObservationReliability(id)
    \/ \E days \in RecentDays, obs_type \in RecentTypes,
          min_reliability \in RecentThresholds :
           GetRecentObservations(days, obs_type, min_reliability)
    \/ CalculateIndigenousScore(<<0, 0>>, DefaultHoursBack)
    \/ \E a \in ReadRiskInputs : FuseCommunityRisk(a, <<0, 0>>)

SpecRead == Init /\ [][NextRead]_vars

(***************************************************************************)
(* Concurrent validation.  Once a report is stored, two validators each    *)
(* call validate_observation on it, with either decision; the statements   *)
(* of the two calls interleave and the clock advances.                     *)
(***************************************************************************)
MaxRaceObs == 1
MaxRaceTicks == 2

NextRace ==
    \/ /\ ~Registered
       /\ Register
    \/ /\ Registered
       /\ Len(observations) < MaxRaceObs
       /\ calls = <<>>
       /\ SubmitObservation("fisher1", "anomalous_waves", "report", <<0, 0>>,
                            "CRITICAL", One)
    \/ \E c \in Callers, is_valid \in BOOLEAN :
           /\ observations # <<>>
           /\ BeginValidate(c, 1, is_valid)
    \/ \E c \in Callers : UpdateRow(c)
    \/ \E c \in Callers : BusyTimeout(c)
    \/ \E c \in Callers : InsertRecord(c)
    \/ \E c \in Callers : CommitValidation(c)
    \/ /\ now < MaxRaceTicks
       /\ Tick

SpecRace == Init /\ [][NextRace]_vars

(***************************************************************************)
(* Storage faults.  A fisher submits reports and a validator judges them,  *)
(* statement by statement; any statement of either call, the commit        *)
(* included, may raise.  The fisher may be registered at any moment the    *)
(* database is not locked.                                                 *)
(***************************************************************************)
MaxFaultObs == 2
MaxFaultValidations == 2

FaultCallers == {"fisher1", "elder1"}

NextFault ==
    \/ /\ ~Registered
       /\ LockHolders = {}
       /\ Register
    \/ /\ Len(observations) < MaxFaultObs
       /\ BeginSubmit("fisher1", "anomalous_waves", "report", <<0, 0>>,
                      "CRITICAL", One)
    \/ InsertObservation("fisher1")
    \/ UpdateCounter("fisher1")
    \/ CommitSubmission("fisher1")
    \/ \E observation_id \in 1..MaxFaultObs, is_valid \in BOOLEAN :
           /\ Len(validation_history) < MaxFaultValidations
           /\ observation_id \in DOMAIN observations
           /\ BeginValidate("elder1", observation_id, is_valid)
    \/ UpdateRow("elder1")
    \/ InsertRecord("elder1")
    \/ CommitValidation("elder1")
    \/ \E c \in FaultCallers : BusyTimeout(c)
    \/ \E c \in FaultCallers : FaultBeforeWrite(c)
    \/ \E c \in FaultCallers : FaultInTransaction(c)
    \/ \E c \in FaultCallers : CollectConnection(c)
    \/ \E c \in FaultCallers : ReturnToCaller(c)

SpecFault == Init /\ [][NextFault]_vars

(***************************************************************************)
(* Free-text categories.  submit_observation stores obs_type as given; a   *)
(* registered observer files CRITICAL reports at one place, some of a      *)
(* category that is not one of OBSERVATION_TYPES; reports are accepted and *)
(* scored in any order and the aggregator is queried in between.           *)
(***************************************************************************)
MaxTypeObs == 3
MaxTypeValidations == 3

SubmittedTypes == {"anomalous_waves", "oil_spill"}

NextType ==
    \/ /\ ~Registered
       /\ Register
    \/ /\ Registered
       /\ Len(observations) < MaxTypeObs
       /\ \E obs_type \in SubmittedTypes :
              SubmitObservation("fisher1", obs_type, "report", <<0, 0>>,
                                "CRITICAL", One)
    \/ /\ Len(validation_history) < MaxTypeValidations
       /\ \E id \in DOMAIN observations :
              /\ Unvalidated(id)
              /\ ValidateObservation(id, "elder1", TRUE, 0, "")
    \/ \E id \in DOMAIN observations :
           /\ Unscored(id)
           /\ CalculateObservationReliability(id)
    \/ CalculateIndigenousScore(<<0, 0>>, DefaultHoursBack)

SpecType == Init /\ [][NextType]_vars

IsRiskCall == ret.op = "calculate_hybrid_risk"

\* C1: for every valid input calculate_hybrid_risk returns r with 0.0 <= r <= 1.0
\* (r in hundredths: 0 <= r <= 100).
C1_RiskInUnitInterval == IsRiskCall => (ret.value >= 0 /\ ret.value <= 100)

C1_Witness == IsRiskCall /\ ret.value > 0 /\ ret.value < 100

SeaRank(s) == CASE s = "Calm" -> 0 [] s = "Choppy" -> 1 [] s = "Rough" -> 2

WindRank(s) == CASE s = "Normal" -> 0 [] s = "High" -> 1 [] s = "Very High" -> 2

\* C2: with the other four arguments fixed, a higher sea_state, wind_speed,
\* tide_level or rainfall_mm never lowers the returned risk and a wider
\* mangrove_width never raises it: the value returned for the call's
\* arguments is compared with the value at every grid point that differs
\* from them in one argument.
C2_Monotone ==
    IsRiskCall =>
        LET a == ret.args IN
        /\ \A s \in SeaStates : SeaRank(s) >= SeaRank(a[2]) =>
               calculate_hybrid_risk(a[1], s, a[3], a[4], a[5]) >= ret.value
        /\ \A w \in WindSpeeds : WindRank(w) >= WindRank(a[3]) =>
               calculate_hybrid_risk(a[1], a[2], w, a[4], a[5]) >= ret.value
        /\ \A t \in TideLevels : t >= a[4] =>
               calculate_hybrid_risk(a[1], a[2], a[3], t, a[5]) >= ret.value
        /\ \A r \in Rainfalls : r >= a[5] =>
               calculate_hybrid_risk(a[1], a[2], a[3], a[4], r) >= ret.value
        /\ \A m \in MangroveWidths : m >= a[1] =>
               calculate_hybrid_risk(m, a[2], a[3], a[4], a[5]) <= ret.value

\* a call whose result changes strictly along the sea_state axis
C2_Witness ==
    /\ IsRiskCall
    /\ ret.args[2] = "Choppy"
    /\ calculate_hybrid_risk(ret.args[1], "Calm", ret.args[3], ret.args[4], ret.args[5])
           < ret.value
    /\ calculate_hybrid_risk(ret.args[1], "Rough", ret.args[3], ret.args[4], ret.args[5])
           > ret.value

\* The documented formula, in thousandths of the contributions' weights:
\* 0.3 + sea + wind + tide_c + rain_c - prot as an exact fraction num/den,
\* with tide_level in tenths of a metre.
DocSea(s) == CASE s = "Calm" -> 0 [] s = "Choppy" -> 2 [] s = "Rough" -> 4

DocWind(s) == CASE s = "Normal" -> 0 [] s = "High" -> 1 [] s = "Very High" -> 2

\* numerator over 3000 of the unclamped documented sum
DocSum(a) ==
    900 + 300 * DocSea(a[2]) + 300 * DocWind(a[3])
        + Min(20 * a[4], 600)       \* min(tide/3.0 * 0.2, 0.2)
        + Min((9 * a[5]) \div 10, 450)   \* min(rain/500 * 0.15, 0.15)
        - Min(30 * a[1], 1500)      \* min(width/100, 0.5)

DocClamp(x) == IF x < 0 THEN 0 ELSE IF x > 3000 THEN 3000 ELSE x

\* C3: calculate_hybrid_risk returns exactly round2(clamp to [0,1] of
\* (0.3 + sea + wind + tide_c + rain_c - prot)) with the documented weights.
C3_Formula == IsRiskCall => ret.value = RoundHalfEven(DocClamp(DocSum(ret.args)), 30)

\* a call where every contribution is strictly inside its cap and the sum is
\* not clamped
C3_Witness ==
    /\ IsRiskCall
    /\ ret.args[1] = 17 /\ ret.args[2] = "Choppy" /\ ret.args[3] = "High"
    /\ ret.args[4] = 15 /\ ret.args[5] = 200
    /\ ret.value = 59

\* C4: the result saturates: an unclamped sum below 0 gives exactly 0.0 (so
\* does the call (85, Calm, Normal, 0, 0)) and an unclamped sum above 1
\* gives exactly 1.0 (so does (0, Rough, Very High, 3.0, 500)).
C4_Saturates ==
    IsRiskCall =>
        /\ DocSum(ret.args) < 0 => ret.value = 0
        /\ DocSum(ret.args) > 3000 => ret.value = 100
        /\ ret.args = <<85, "Calm", "Normal", 0, 0>> => ret.value = 0
        /\ ret.args = <<0, "Rough", "Very High", 30, 500>> => ret.value = 100

C4_Witness ==
    /\ IsRiskCall
    /\ ret.args = <<0, "Rough", "Very High", 30, 500>>
    /\ DocSum(ret.args) = 3750
    /\ ret.value = 100

C4_WitnessLow ==
    /\ IsRiskCall
    /\ ret.args = <<85, "Calm", "Normal", 0, 0>>
    /\ DocSum(ret.args) < 0
    /\ ret.value = 0

(***************************************************************************)
(* Reliability scoring                                                     *)
(***************************************************************************)

IsScoreCall == ret.op = "calculate_observation_reliability"

\* the call found the observation joined with its observer and scored it
IsScored == IsScoreCall /\ ret.row

\* C5: in every reachable store state calculate_observation_reliability
\* returns a value in [0,1] and every stored reliability_score is in [0,1],
\* whatever the number of corroborating observations and whether or not the
\* observation is validated.
C5_ReliabilityInUnitInterval ==
    /\ IsScoreCall => (ret.value >= 0 /\ ret.value <= 1000)
    /\ \A i \in DOMAIN observations :
           /\ observations[i].reliability_score >= 0
           /\ observations[i].reliability_score <= One

\* a validated CRITICAL report of full confidence with five corroborating
\* reports: 0.785 + 5 * 0.05 exceeds 1.0 and the score is capped
C5_Witness ==
    /\ IsScored
    /\ ret.corroboration_count >= 5
    /\ observations[1].validated = 1
    /\ observations[1].severity = "CRITICAL"
    /\ observations[1].confidence_level = One
    /\ observations[1].reliability_score = One
    /\ ret.value = 1000

DocSeverityWeight(severity) ==
    CASE severity = "LOW" -> 20
      [] severity = "MODERATE" -> 50
      [] severity = "HIGH" -> 75
      [] severity = "CRITICAL" -> 95

DocAbs(x) == IF x < 0 THEN 0 - x ELSE x

\* the documented corroborating observations of id: the others that are
\* validated as valid, of the same category, within 0.09 degrees on both axes
DocCorroborating(id) ==
    {j \in (DOMAIN observations) \ {id} :
        /\ observations[j].validated = 1
        /\ observations[j].observation_type = observations[id].observation_type
        /\ DocAbs(observations[j].location_lat - observations[id].location_lat) <= 9
        /\ DocAbs(observations[j].location_lon - observations[id].location_lon) <= 9}

\* the documented steps, in units of 1/100000000
DocReliability(id) ==
    LET o == observations[id]
        step1 == observers[o.observer_id].accuracy_score * o.confidence_level
        step2 == (step1 * 7) \div 10 + DocSeverityWeight(o.severity) * 300000
        step3 == IF o.validated = 1
                     THEN (IF step2 + 15000000 > 100000000 THEN 100000000
                                                           ELSE step2 + 15000000)
                     ELSE step2
        step4 == step3 + 5000000 * Cardinality(DocCorroborating(id))
        capped == IF step4 > 100000000 THEN 100000000 ELSE step4
    IN  RoundHalfEven(capped, 100000)

\* C6: for a stored observation of a registered observer the call returns
\* round3 of: accuracy * confidence; * 0.7 + severity_weight * 0.3; + 0.15
\* capped at 1.0 if validated as valid; + 0.05 per corroborating
\* observation, capped at 1.0.
C6_ReliabilityFormula == IsScored => ret.value = DocReliability(ret.args[1])

\* a validated LOW report of confidence 0.334 with one corroborating report:
\* 0.1169 + 0.06 + 0.15 + 0.05 = 0.3769, returned as 0.377
C6_Witness ==
    /\ IsScored
    /\ observations[1].severity = "LOW"
    /\ observations[1].confidence_level = 3340
    /\ observations[1].validated = 1
    /\ ret.corroboration_count = 1
    /\ ret.value = 377

\* C7: the corroboration count used by the call is exactly the number of
\* other stored observations that are validated as valid, have the same
\* category and lie within 0.09 degrees (inclusive) in latitude and in
\* longitude; unvalidated and invalidated observations, other categories
\* and the observation itself are not counted.
C7_CorroborationCount ==
    IsScored => ret.corroboration_count = Cardinality(DocCorroborating(ret.args[1]))

\* the scored report is itself validated, one report exactly 0.09 degrees
\* away on both axes is validated and counted, a third one is not counted
C7_Witness ==
    /\ IsScored
    /\ Len(observations) = 3
    /\ observations[1].validated = 1
    /\ observations[1].location_lat = 0 /\ observations[1].location_lon = 0
    /\ \E j \in {2, 3} :
           /\ observations[j].validated = 1
           /\ observations[j].location_lat = 9 /\ observations[j].location_lon = 9
    /\ ret.corroboration_count = 1

\* C8: a call with an id that is not stored returns 0.0 and leaves every
\* observer, observation and validation record unchanged.
C8_UnknownIdSafeDefault ==
    [][(/\ ret'.op = "calculate_observation_reliability"
        /\ ret'.args[1] \notin DOMAIN observations)
       => (/\ ret'.value = 0
           /\ observers' = observers
           /\ observations' = observations
           /\ validation_history' = validation_history)]_vars

\* the call was made for an unknown id on a store that holds observers,
\* observations and validation records
C8_Witness ==
    /\ IsScoreCall
    /\ ret.args[1] \notin DOMAIN observations
    /\ ret.value = 0
    /\ observations # <<>>
    /\ validation_history # <<>>
    /\ Registered

\* C9: two calls for the same id in a row, nothing in between: the second
\* returns what the first returned and leaves the stored observations as
\* the first left them.
C9_Idempotent ==
    [][(/\ ret.op = "calculate_observation_reliability"
        /\ ret'.op = "calculate_observation_reliability"
        /\ ret'.args = ret.args)
       => (/\ ret'.value = ret.value
           /\ observations' = observations)]_vars

\* the second of two calls in a row for a validated, corroborated report
C9_Witness ==
    /\ IsScored
    /\ ret.repeat
    /\ observations[1].validated = 1
    /\ ret.corroboration_count >= 1
    /\ observations[1].reliability_score > 0

\* C10: after the call returns r for a stored observation, the persisted
\* reliability_score equals r (the value rounded to 3 decimals is stored).
C10_StoredEqualsReturned ==
    IsScored => observations[ret.args[1]].reliability_score = ret.value * (One \div 1000)

IsAggCall == ret.op = "calculate_indigenous_score_from_observations"

\* The documented window: accepted by a validator, latitude and longitude
\* each within 0.45 degrees of the query location, submitted less than
\* hours_back hours ago.
DocInWindow(i, location, hours_back) ==
    /\ observations[i].validated = 1
    /\ DocAbs(observations[i].location_lat - location[1]) <= 45
    /\ DocAbs(observations[i].location_lon - location[2]) <= 45
    /\ ret.at - observations[i].timestamp < hours_back

DocMatching(location, hours_back) ==
    {i \in DOMAIN observations : DocInWindow(i, location, hours_back)}

\* Sum of severity weight (hundredths) times stored reliability over the
\* documented window, for the categories cats, in units of 1/One^2.
RECURSIVE DocRaw(_, _, _, _)
DocRaw(i, cats, location, hours_back) ==
    IF i = 0 THEN 0
    ELSE DocRaw(i - 1, cats, location, hours_back)
         + (IF /\ DocInWindow(i, location, hours_back)
               /\ observations[i].observation_type \in cats
                THEN 100 * DocSeverityWeight(observations[i].severity)
                         * observations[i].reliability_score
                ELSE 0)

DocCap(x, cap) == IF x < cap THEN x ELSE cap

\* The four documented sub-scores before rounding, in units of 1/(9 * One^2)
DocWave == DocCap(3 * DocRaw(Len(observations), {"anomalous_waves"},
                             ret.args[1], ret.args[2]), 360000000)
DocWindAnomaly == DocCap(3 * DocRaw(Len(observations), {"wind_pattern_shift"},
                                    ret.args[1], ret.args[2]), 270000000)
DocTidal == DocCap(3 * DocRaw(Len(observations), {"tidal_anomaly"},
                              ret.args[1], ret.args[2]), 225000000)
DocEcosystem ==
    DocCap(DocRaw(Len(observations),
                  {"wildlife_behavior", "coastal_erosion", "mangrove_stress"},
                  ret.args[1], ret.args[2]), 180000000)

\* C11: every aggregator call returns total_indigenous_score <= 1.0, and a
\* call that no observation matches returns the four sub-scores, the total
\* and the confidence all 0 and num_observations 0.
C11_TotalBounded ==
    IsAggCall =>
        /\ ret.value.total_indigenous_score <= 1000
        /\ DocMatching(ret.args[1], ret.args[2]) = {} =>
               /\ ret.value.wave_anomaly_score = 0
               /\ ret.value.wind_anomaly_score = 0
               /\ ret.value.tidal_anomaly_score = 0
               /\ ret.value.ecosystem_stress_score = 0
               /\ ret.value.total_indigenous_score = 0
               /\ ret.value.confidence = 0
               /\ ret.value.num_observations = 0

\* The four sub-scores add up to more than 1.0 and the total is 1.0
C11_Witness ==
    /\ IsAggCall
    /\ DocWave + DocWindAnomaly + DocTidal + DocEcosystem > 900000000
    /\ ret.value.total_indigenous_score = 1000

\* A call that nothing matches although validated reports are stored
C11_WitnessEmpty ==
    /\ IsAggCall
    /\ \E i \in DOMAIN observations : observations[i].validated = 1
    /\ DocMatching(ret.args[1], ret.args[2]) = {}
    /\ ret.value.num_observations = 0

\* C12: the aggregator's confidence is num_observations / 5 while fewer than
\* five observations match and exactly 1.0 from five on, and
\* num_observations is the number of observations in the window.
C12_Confidence ==
    IsAggCall =>
        LET n == Cardinality(DocMatching(ret.args[1], ret.args[2]))
        IN  /\ ret.value.num_observations = n
            /\ ret.value.confidence = IF n >= 5 THEN 1000 ELSE 200 * n

\* More than five observations match and the confidence is 1.0
C12_Witness ==
    /\ IsAggCall
    /\ Cardinality(DocMatching(ret.args[1], ret.args[2])) > 5
    /\ ret.value.num_observations > 5
    /\ ret.value.confidence = 1000

\* Three observations match and the confidence is 0.6
C12_WitnessPartial ==
    /\ IsAggCall
    /\ ret.value.num_observations = 3
    /\ ret.value.confidence = 600

DocTotal == DocCap(DocWave + DocWindAnomaly + DocTidal + DocEcosystem, 900000000)

\* round(x, 3) of a value in units of 1/(9 * One^2), in thousandths
DocRound3(x) ==
    LET q == x \div 900000
        r == x % 900000
    IN  IF 2 * r > 900000 \/ (2 * r = 900000 /\ q % 2 = 1) THEN q + 1 ELSE q

\* C13 as stated: the returned sub-scores and total are exactly the capped
\* quotients of the raw category sums.
C13_ExactSubScores ==
    IsAggCall =>
        /\ ret.value.wave_anomaly_score * 900000 = DocWave
        /\ ret.value.wind_anomaly_score * 900000 = DocWindAnomaly
        /\ ret.value.tidal_anomaly_score * 900000 = DocTidal
        /\ ret.value.ecosystem_stress_score * 900000 = DocEcosystem
        /\ ret.value.total_indigenous_score * 900000 = DocTotal

\* C13: with raw[c] the sum of severity weight times stored reliability over
\* the matching observations of category c, the aggregator returns, each
\* rounded to 3 decimals, wave = min(raw/3, 0.4), wind = min(raw/3, 0.3),
\* tidal = min(raw/3, 0.25), ecosystem = min((wildlife + erosion +
\* mangrove)/9, 0.2) and total = min(sum of the unrounded four, 1.0); no
\* returned sub-score exceeds its cap.
C13_SubScores ==
    IsAggCall =>
        /\ ret.value.wave_anomaly_score = DocRound3(DocWave)
        /\ ret.value.wind_anomaly_score = DocRound3(DocWindAnomaly)
        /\ ret.value.tidal_anomaly_score = DocRound3(DocTidal)
        /\ ret.value.ecosystem_stress_score = DocRound3(DocEcosystem)
        /\ ret.value.total_indigenous_score = DocRound3(DocTotal)
        /\ ret.value.wave_anomaly_score <= 400
        /\ ret.value.wind_anomaly_score <= 300
        /\ ret.value.tidal_anomaly_score <= 250
        /\ ret.value.ecosystem_stress_score <= 200

\* The three ecosystem categories together exceed the cap and 0.2 is
\* returned, while the wave score is below its cap and is changed by the
\* rounding
C13_Witness ==
    /\ IsAggCall
    /\ DocRaw(Len(observations),
              {"wildlife_behavior", "coastal_erosion", "mangrove_stress"},
              ret.args[1], ret.args[2]) > 180000000
    /\ ret.value.ecosystem_stress_score = 200
    /\ ret.value.wave_anomaly_score > 0
    /\ ret.value.wave_anomaly_score < 400
    /\ DocWave % 900000 # 0

\* The wave sum exceeds its cap and 0.4 is returned
C13_WitnessWaveCap ==
    /\ IsAggCall
    /\ 3 * DocRaw(Len(observations), {"anomalous_waves"},
                  ret.args[1], ret.args[2]) > 360000000
    /\ ret.value.wave_anomaly_score = 400

\* C14: an observation is among the rows of an aggregator call if and only
\* if it is validated as valid, its latitude and longitude are both within
\* 0.45 degrees of the location and it was submitted within the last
\* hours_back hours; one submitted more than hours_back hours before the
\* call is never among them.
C14_ContributesIffInWindow ==
    IsAggCall =>
        \A i \in DOMAIN observations :
            LET near == /\ DocAbs(observations[i].location_lat - ret.args[1][1]) <= 45
                        /\ DocAbs(observations[i].location_lon - ret.args[1][2]) <= 45
                valid == observations[i].validated = 1
                age == ret.at - observations[i].timestamp
            IN  /\ i \in ret.rows => (valid /\ near)
                /\ (valid /\ near /\ age < ret.args[2]) => i \in ret.rows
                /\ age > ret.args[2] => i \notin ret.rows

\* The validated, nearby reports always match when they are recent enough,
\* and a report of an earlier date than the cutoff does not match
C14_DateWindow ==
    IsAggCall =>
        \A i \in DOMAIN observations :
            i \in ret.rows <=>
                /\ observations[i].validated = 1
                /\ DocAbs(observations[i].location_lat - ret.args[1][1]) <= 45
                /\ DocAbs(observations[i].location_lon - ret.args[1][2]) <= 45
                /\ observations[i].timestamp \div 24 >= (ret.at - ret.args[2]) \div 24

IsSubmitCall == ret.op = "submit_observation"

\* C15: submit_observation by an observer_id that is not registered
\* succeeds: it returns the id of the newly stored observation, whose
\* observer_name is "Anonymous"; by a registered observer_id the stored
\* observer_name is the registered name.
C15_AnonymousSubmit ==
    IsSubmitCall =>
        /\ ret.value = Len(observations)
        /\ ret.value >= 1
        /\ observations[ret.value].observer_id = ret.args[1]
        /\ observations[ret.value].observer_name =
               IF ret.args[1] \in DOMAIN observers
                   THEN observers[ret.args[1]].name
                   ELSE "Anonymous"

\* An unregistered id has submitted while another observer is registered
C15_Witness ==
    /\ IsSubmitCall
    /\ ret.args[1] \notin DOMAIN observers
    /\ DOMAIN observers # {}
    /\ ret.value = Len(observations)
    /\ observations[ret.value].observer_name = "Anonymous"

\* A registered observer has submitted under its registered name
C15_WitnessRegistered ==
    /\ IsSubmitCall
    /\ ret.args[1] \in DOMAIN observers
    /\ observations[ret.value].observer_name = observers[ret.args[1]].name

\* The stored observations of observer_id submitted while it was registered:
\* those that carry the registered name instead of "Anonymous"
SubmittedRegistered(observer_id) ==
    {i \in DOMAIN observations :
        /\ observations[i].observer_id = observer_id
        /\ observations[i].observer_name = observers[observer_id].name}

C16_CounterMatches ==
    \A observer_id \in DOMAIN observers :
        observers[observer_id].total_observations =
            Cardinality(SubmittedRegistered(observer_id))

C16_SubmitStep ==
    Len(observations') = Len(observations) + 1 =>
        \A observer_id \in DOMAIN observers :
            observers'[observer_id].total_observations =
                observers[observer_id].total_observations
                + (IF observations'[Len(observations')].observer_id = observer_id
                       THEN 1 ELSE 0)

C17_ReRegisterNoOp ==
    [][(/\ ret'.op = "register_observer"
        /\ now' = now
        /\ ret'.args[1] \in DOMAIN observers)
       => (ret'.value = TRUE /\ observers' = observers)]_vars

\* An observer that has submitted was registered again, later and under
\* another name, and kept its record
C17_Witness ==
    /\ ret.op = "register_observer"
    /\ ret.args[1] \in DOMAIN observers
    /\ ret.args[2] # observers[ret.args[1]].name
    /\ observers[ret.args[1]].total_observations > 0
    /\ observers[ret.args[1]].registration_date < now
    /\ ret.value = TRUE

IsValidateCall == ret.op = "validate_observation"

\* C18: validate_observation on an observation id that is not in the store
\* does not report success, and the history holds no record of an id that
\* is not in the store.
C18_UnknownIdRejected ==
    /\ (IsValidateCall /\ ret.args[1] \notin DOMAIN observations)
           => ret.value = FALSE
    /\ \A k \in DOMAIN validation_history :
           validation_history[k].observation_id \in DOMAIN observations

\* C19: the validation history is append-only: every step keeps the records
\* already written, in place and unchanged, and a validate_observation call
\* appends exactly one record carrying its observation id, its validator id
\* and VALID or INVALID.
C19_AppendOnly ==
    [][/\ Len(validation_history') >= Len(validation_history)
       /\ SubSeq(validation_history', 1, Len(validation_history))
              = validation_history
       /\ ret'.op = "validate_observation" =>
              /\ ret'.value = TRUE
              /\ Len(validation_history') = Len(validation_history) + 1
              /\ LET r == validation_history'[Len(validation_history')]
                 IN  /\ r.observation_id = ret'.args[1]
                     /\ r.validator_id = ret'.args[2]
                     /\ r.validation_result =
                            IF ret'.args[3] THEN "VALID" ELSE "INVALID"
                     /\ r.reliability_adjustment = 0
                     /\ r.notes = ""]_vars

\* One observation was accepted and later rejected, and the history keeps
\* both records in that order
C19_Witness ==
    /\ IsValidateCall
    /\ \E j, k \in DOMAIN validation_history :
           /\ j < k
           /\ validation_history[j].observation_id
                  = validation_history[k].observation_id
           /\ validation_history[j].validation_result = "VALID"
           /\ validation_history[k].validation_result = "INVALID"

\* C20: no operation changes an observer's accuracy_score: every registered
\* observer's accuracy_score is the registration default 0.5 in every
\* reachable state.
C20_AccuracyConstant ==
    \A observer_id \in DOMAIN observers :
        observers[observer_id].accuracy_score = 5000

\* A report of a registered observer has just been accepted, after an
\* earlier validation, and the observer's accuracy_score is 0.5
C20_Witness ==
    /\ IsValidateCall
    /\ ret.args[1] \in DOMAIN observations
    /\ ret.args[3] = TRUE
    /\ Len(validation_history) >= 2
    /\ observations[ret.args[1]].observer_id \in DOMAIN observers
    /\ observers[observations[ret.args[1]].observer_id].accuracy_score = 5000
    /\ observers[observations[ret.args[1]].observer_id].total_observations > 0

IsRecentCall == ret.op = "get_recent_observations"

\* The documented selection of get_recent_observations: validated as valid,
\* submitted later than days before the call, stored reliability at least
\* min_reliability, of the category when one is given.
DocRecent(days, obs_type, min_reliability) ==
    {i \in DOMAIN observations :
        /\ observations[i].validated = 1
        /\ observations[i].timestamp > ret.at - 24 * days
        /\ observations[i].reliability_score >= min_reliability
        /\ obs_type # "NULL" => observations[i].observation_type = obs_type}

\* C21: get_recent_observations(days, category, min_reliability) returns
\* exactly the stored observations that are validated as valid, were
\* submitted later than now - days, have reliability_score >= min_reliability
\* and have the category when one is given, newest first.
C21_RecentSelection ==
    IsRecentCall =>
        /\ {ret.value[k] : k \in DOMAIN ret.value}
               = DocRecent(ret.args[1], ret.args[2], ret.args[3])
        /\ Len(ret.value)
               = Cardinality(DocRecent(ret.args[1], ret.args[2], ret.args[3]))
        /\ \A j, k \in DOMAIN ret.value :
               j < k => observations[ret.value[j]].timestamp
                            >= observations[ret.value[k]].timestamp

Readers == {"calculate_indigenous_score_from_observations",
            "get_recent_observations", "calculate_hybrid_risk"}

\* C22: calculate_indigenous_score_from_observations,
\* get_recent_observations and calculate_hybrid_risk are read-only: a call
\* of any of them, in any state and between any other calls, leaves every
\* observer, observation and validation record unchanged.
C22_ReadOnly ==
    [][ret'.op \in Readers =>
           /\ observers' = observers
           /\ observations' = observations
           /\ validation_history' = validation_history]_vars

\* The aggregator has just read a store that holds a validated, scored
\* report and its validation record
C22_Witness ==
    /\ IsAggCall
    /\ ret.rows # {}
    /\ \E i \in ret.rows : observations[i].reliability_score > 0
    /\ validation_history # <<>>
    /\ observers # <<>>

\* The fusion has just been evaluated over the same kind of store
C22_WitnessFusion ==
    /\ ret.op = "calculate_hybrid_risk"
    /\ \E i \in DOMAIN observations : observations[i].reliability_score > 0
    /\ validation_history # <<>>

\* numerator over 3000 of the documented sum with the aggregator's total
\* (thousandths) in place of the sea_state / wind_speed mapping
DocSumCommunity(a, total) ==
    DocSum(a) - 300 * DocSea(a[2]) - 300 * DocWind(a[3]) + 3 * total

\* C24: the fusion supports the aggregator as the source of its indigenous
\* contribution: when the caller holds a total_indigenous_score computed
\* from matching community observations, the risk it gets from the fusion
\* is the fusion formula with that total in place of the manual mapping.
C24_AggregatorSourceUsed ==
    (/\ ret.op = "calculate_hybrid_risk"
     /\ "community" \in DOMAIN ret
     /\ ret.community.num_observations > 0)
        => ret.value = RoundHalfEven(
               DocClamp(DocSumCommunity(ret.args,
                            ret.community.total_indigenous_score)), 30)

\* What the fusion returns instead: the manual mapping, whatever the
\* aggregator's total
C24_ManualMappingOnly ==
    ret.op = "calculate_hybrid_risk" =>
        ret.value = RoundHalfEven(DocClamp(DocSum(ret.args)), 30)

BothComplete == \A c \in Callers : c \in DOMAIN calls /\ calls[c].pc = "done"

Succeeded == {c \in DOMAIN calls : calls[c].pc = "done" /\ calls[c].value = TRUE}

\* C23: when two concurrent validate_observation calls on one observation
\* id have both completed, the observation's validated flag, validator_id
\* and validation_timestamp are those written by one and the same call,
\* the one that committed last, and the validation history holds exactly one record for each call that
\* returned True.
C23_LastWriterWins ==
    BothComplete =>
        /\ Succeeded # {} =>
               \E c \in Succeeded :
                   /\ validation_history[Len(validation_history)].validator_id =
                          calls[c].validator_id
                   /\ observations[1].validated = (IF calls[c].is_valid THEN 1 ELSE 0)
                   /\ observations[1].validator_id = calls[c].validator_id
                   /\ observations[1].validation_timestamp = calls[c].updated_at
        /\ Succeeded = {} => observations[1].validator_id = "NULL"
        /\ Len(validation_history) = Cardinality(Succeeded)
        /\ \A c \in Succeeded :
               Cardinality({k \in DOMAIN validation_history :
                   /\ validation_history[k].validator_id = calls[c].validator_id
                   /\ validation_history[k].observation_id = 1
                   /\ validation_history[k].validation_result =
                          (IF calls[c].is_valid THEN "VALID" ELSE "INVALID")}) = 1

\* Both calls returned True with opposite decisions, at different times
C23_Witness ==
    /\ BothComplete
    /\ Succeeded = Callers
    /\ calls["elder1"].is_valid # calls["elder2"].is_valid
    /\ calls["elder1"].updated_at # calls["elder2"].updated_at
    /\ Len(validation_history) = 2

\* One call waited for the lock and gave up, the other returned True
C23_WitnessBusy ==
    /\ BothComplete
    /\ Cardinality(Succeeded) = 1
    /\ Len(validation_history) = 1

IsFaultRet(r) == "fault" \in DOMAIN r

\* The call of caller c fails in this step
Fails(c) ==
    /\ c \in DOMAIN calls
    /\ c \in DOMAIN calls'
    /\ calls[c].pc \notin {"leaked", "done"}
    /\ calls'[c].pc \in {"leaked", "done"}
    /\ IF calls[c].op = "submit_observation"
           THEN calls'[c].value < 1
           ELSE calls'[c].value = FALSE

StoreUnchanged == UNCHANGED <<observers, observations, validation_history>>

\* No stored report of a registered name without its counter increment, no
\* validation fields without a history record of that validator
NoPartialWrite ==
    /\ \A o \in DOMAIN observers :
           /\ observers[o].total_observations >= Cardinality(SubmittedRegistered(o))
           /\ observers[o].total_observations <=
                  Cardinality({i \in DOMAIN observations :
                                  observations[i].observer_id = o})
    /\ \A i \in DOMAIN observations :
           observations[i].validator_id # "NULL" =>
               \E k \in DOMAIN validation_history :
                   /\ validation_history[k].observation_id = i
                   /\ validation_history[k].validator_id =
                          observations[i].validator_id

C25_FaultStep ==
    \A c \in FaultCallers :
        /\ Fails(c) =>
               /\ StoreUnchanged
               /\ ret'.op = calls[c].op
               /\ ret'.value = FailureValue(calls[c].op)
               /\ calls'[c].value = FailureValue(calls[c].op)
        /\ (c \in DOMAIN calls /\ calls[c].pc \in {"leaked", "done"}) =>
               /\ c \in DOMAIN calls' =>
                      /\ calls'[c].pc \in {"leaked", "done"}
                      /\ calls'[c].value = calls[c].value
                      /\ calls'[c] # calls[c] => StoreUnchanged
               /\ c \notin DOMAIN calls' => StoreUnchanged

\* C25: when a statement of submit_observation or validate_observation
\* raises, the call returns -1 / False, not an id or True; the failed call
\* takes no further step on the store (no retry); and the step of the
\* failure and every later step of that call leave observers, observations
\* and history as they were, so that no report is stored without its
\* counter increment and no validation fields without their record.
C25_FaultAtomic == []NoPartialWrite /\ [][C25_FaultStep]_vars

\* validate_observation failed after its UPDATE and its INSERT: the report
\* is still unvalidated, the history empty, the connection left open
C25_Witness ==
    /\ IsFaultRet(ret)
    /\ ret.op = "validate_observation"
    /\ ret.value = FALSE
    /\ "elder1" \in DOMAIN calls
    /\ calls["elder1"].pc = "leaked"
    /\ ret.fault = "inserted"
    /\ observations # <<>>
    /\ observations[1].validator_id = "NULL"
    /\ validation_history = <<>>

\* submit_observation of a registered fisher failed after its INSERT:
\* no report stored, counter still 0
C25_WitnessSubmit ==
    /\ IsFaultRet(ret)
    /\ ret.op = "submit_observation"
    /\ ret.value = 0 - 1
    /\ "fisher1" \in DOMAIN calls
    /\ calls["fisher1"].pc = "leaked"
    /\ ret.fault = "counted"
    /\ Registered
    /\ observers["fisher1"].total_observations = 0
    /\ observations = <<>>

\* While a failed call's connection is uncollected, a later call finds the
\* database locked and fails too
C25_WitnessLeakedLock ==
    /\ ~IsFaultRet(ret)
    /\ ret.op = "submit_observation"
    /\ ret.value = 0 - 1
    /\ "elder1" \in DOMAIN calls
    /\ calls["elder1"].pc = "leaked"

\* Matching rows of the categories cats that have been scored
DocScored(cats, location, hours_back) ==
    {i \in DocMatching(location, hours_back) :
        /\ observations[i].observation_type \in cats
        /\ observations[i].reliability_score > 0}

\* An observation with reliability_score 0.0 adds nothing to any sub-score,
\* is counted in num_observations and confidence, and is not listed by
\* get_recent_observations under a positive threshold.
UnscoredAddsNothing ==
    /\ IsAggCall =>
           LET location == ret.args[1]
               hours_back == ret.args[2]
               n == Cardinality(DocMatching(location, hours_back))
           IN  /\ ret.value.num_observations = n
               /\ ret.value.confidence = (IF n >= 5 THEN 1000 ELSE 200 * n)
               /\ n > 0 =>
                   /\ DocScored({"anomalous_waves"}, location, hours_back) = {}
                          => ret.value.wave_anomaly_score = 0
                   /\ DocScored({"wind_pattern_shift"}, location, hours_back) = {}
                          => ret.value.wind_anomaly_score = 0
                   /\ DocScored({"tidal_anomaly"}, location, hours_back) = {}
                          => ret.value.tidal_anomaly_score = 0
                   /\ DocScored({"wildlife_behavior", "coastal_erosion",
                                 "mangrove_stress"}, location, hours_back) = {}
                          => ret.value.ecosystem_stress_score = 0
                   /\ DocScored(ScoreCategories, location, hours_back) = {}
                          => ret.value.total_indigenous_score = 0
    /\ (IsRecentCall /\ ret.args[3] > 0) =>
           \A k \in DOMAIN ret.value :
               observations[ret.value[k]].reliability_score > 0

\* A step of submit_observation or validate_observation writes no
\* reliability_score: stored rows keep theirs, a new row has 0.0
ScoreNotWritten ==
    ret'.op \in {"submit_observation", "validate_observation"} =>
        /\ \A i \in DOMAIN observations :
               observations'[i].reliability_score = observations[i].reliability_score
        /\ \A i \in DOMAIN observations' \ DOMAIN observations :
               observations'[i].reliability_score = 0

\* C26: submit_observation and validate_observation never write
\* reliability_score; a new observation has 0.0 until
\* calculate_observation_reliability is run for it, and until then it adds 0
\* to the aggregator's sub-scores while counting in num_observations and
\* confidence, and get_recent_observations leaves it out for every
\* min_reliability > 0.
C26_UnscoredUntilCalculated == []UnscoredAddsNothing /\ [][ScoreNotWritten]_vars

\* Two validated, unscored reports match: all scores 0, two counted
C26_Witness ==
    /\ IsAggCall
    /\ Len(observations) = 2
    /\ \A i \in DOMAIN observations :
           /\ observations[i].validated = 1
           /\ observations[i].reliability_score = 0
    /\ ret.value.num_observations = 2
    /\ ret.value.confidence = 400
    /\ ret.value.total_indigenous_score = 0

\* A scored wave report and an unscored wind report match: the wind score
\* is 0, the wave score is not
C26_WitnessMixed ==
    /\ IsAggCall
    /\ ret.value.num_observations = 2
    /\ ret.value.wave_anomaly_score > 0
    /\ ret.value.wind_anomaly_score = 0
    /\ \E i \in DOMAIN observations :
           /\ observations[i].observation_type = "wind_pattern_shift"
           /\ observations[i].validated = 1
           /\ observations[i].reliability_score = 0

\* C27: calculate_observation_reliability takes the 0.0 fallback only for an
\* observation id that is not in the store; for a stored observation, also
\* one of an observer_id that was never registered, it finds the row,
\* computes the score and stores it on the observation.
C27_FallbackOnlyWhenAbsent ==
    IsScoreCall =>
        /\ ret.row = FALSE <=> ret.args[1] \notin DOMAIN observations
        /\ ret.args[1] \in DOMAIN observations =>
               ReturnedScore(observations[ret.args[1]].reliability_score) = ret.value

\* Records of observation id i, in the order written
RecordsOf(i) ==
    SelectSeq(validation_history, LAMBDA r : r.observation_id = i)

\* C28: a stored observation with at least one validation record has the
\* validated flag of the decision of its latest record and that record's
\* validator_id; a stored observation without a record is unvalidated.
C28_StateFollowsLastRecord ==
    \A i \in DOMAIN observations :
        LET records == RecordsOf(i)
        IN  IF records = <<>>
                THEN /\ observations[i].validated = 0
                     /\ observations[i].validator_id = "NULL"
                ELSE LET last == records[Len(records)]
                     IN  /\ observations[i].validated =
                                (IF last.validation_result = "VALID" THEN 1 ELSE 0)
                         /\ observations[i].validator_id = last.validator_id

AggFields == {"wave_anomaly_score", "wind_anomaly_score", "tidal_anomaly_score",
              "ecosystem_stress_score", "total_indigenous_score", "confidence",
              "num_observations"}

\* C29: the aggregator is monotone in the set of matching observations: for
\* every query, each sub-score, the total, the confidence and
\* num_observations computed from the matching observations are at least
\* those computed from the same observations without any one of them.
C29_Monotone ==
    \A location \in AggLocations, hours_back \in AggHours :
        LET rows == MatchingRows(location, hours_back)
        IN  \A j \in rows, f \in AggFields :
                IndigenousScoreOfRows(rows)[f] >= IndigenousScoreOfRows(rows \ {j})[f]

\* A second wave report has been added to the matching set: the wave score
\* stays at its cap and the other scores are not lowered
C29_Witness ==
    /\ IsAggCall
    /\ Cardinality({i \in ret.rows :
           /\ observations[i].observation_type = "anomalous_waves"
           /\ observations[i].reliability_score > 0}) = 2
    /\ ret.value.wave_anomaly_score = 400
    /\ ret.value.ecosystem_stress_score = 200
    /\ ret.value.num_observations >= 5

\* The six categories of OBSERVATION_TYPES
DocCategories == {"anomalous_waves", "wind_pattern_shift", "tidal_anomaly",
                  "wildlife_behavior", "coastal_erosion", "mangrove_stress"}

\* C30: submit_observation stores a report whose category is not one of the
\* six and returns its id; an aggregator call whose window holds a validated
\* report of such a category returns total_indigenous_score 0.0, confidence
\* 0.0 and num_observations 0 and no sub-score, whatever other reports
\* match.
C30_UnknownCategory ==
    /\ (IsSubmitCall /\ ret.args[2] \notin DocCategories) =>
           /\ ret.value = Len(observations)
           /\ ret.value >= 1
           /\ observations[ret.value].observation_type = ret.args[2]
    /\ (/\ IsAggCall
        /\ \E i \in DocMatching(ret.args[1], ret.args[2]) :
               observations[i].observation_type \notin DocCategories) =>
           /\ DOMAIN ret.value =
                  {"total_indigenous_score", "confidence", "num_observations"}
           /\ ret.value.total_indigenous_score = 0
           /\ ret.value.confidence = 0
           /\ ret.value.num_observations = 0

\* A validated, scored wave report and a validated report of an unknown
\* category match the query: the three-field fallback is returned
C30_Witness ==
    /\ IsAggCall
    /\ \E i, j \in DocMatching(ret.args[1], ret.args[2]) :
           /\ observations[i].observation_type = "oil_spill"
           /\ observations[j].observation_type = "anomalous_waves"
           /\ observations[j].reliability_score > 0
    /\ ret.value.total_indigenous_score = 0
    /\ ret.value.num_observations = 0

=============================================================================
